---------------------------- MODULE Spec2Model ----------------------------
(* A model of src/src/ipv4.rs: the Mask, Subnet, ClientSettings and        *)
(* ClientConfiguration value types, their parsers, renderers and          *)
(* conversions, and the two accessors of ClientConfiguration.             *)
(*                                                                         *)
(* Text is a sequence of one-character strings. An Ipv4Addr is the tuple   *)
(* of its four octets. A Mask is the u8 it wraps. A returned value is a    *)
(* record [tag, val]: Ok/Err for Result, Some/None for Option, Value for   *)
(* a plain return, Panic for a call that does not return.                 *)
EXTENDS Integers, Sequences, FiniteSets, TLC

VARIABLES fn, arg, ret, pc, config

vars == <<fn, arg, ret, pc, config>>

-----------------------------------------------------------------------------
(* Bounds of the explored inputs.                                          *)

\* longest text handed to Mask::from_str
MaxMaskTextLen == 3

\* most '/'-separated pieces of a text handed to Subnet::from_str
MaxParts == 3

-----------------------------------------------------------------------------
(* Machine widths.                                                         *)

U8Max == 255

U32Bits == 32

Pow2(n) == 2 ^ n

-----------------------------------------------------------------------------
(* Return values.                                                          *)

Ok(v) == [tag |-> "Ok", val |-> v]

Err(e) == [tag |-> "Err", val |-> e]

Some(v) == [tag |-> "Some", val |-> v]

None == [tag |-> "None", val |-> "none"]

Value(v) == [tag |-> "Value", val |-> v]

Panic == [tag |-> "Panic", val |-> "attempt to shift left with overflow"]

NoValue == [tag |-> "NoValue", val |-> "none"]

-----------------------------------------------------------------------------
(* Decimal text of integers: core's str::parse::<u8> and u8::to_string.    *)

DigitChars == <<"0", "1", "2", "3", "4", "5", "6", "7", "8", "9">>

IsDigit(c) == \E i \in 1..10 : DigitChars[i] = c

to_digit(c) == (CHOOSE i \in 1..10 : DigitChars[i] = c) - 1

\* The digit loop of from_str_radix: checked_mul and checked_add on a u8
\* accumulator, left to right, stopping at the first error.
RECURSIVE ParseDigits(_, _, _)
ParseDigits(s, i, acc) ==
    IF i > Len(s) THEN Ok(acc)
    ELSE IF ~IsDigit(s[i]) THEN Err("InvalidDigit")
    ELSE IF acc * 10 > U8Max THEN Err("PosOverflow")
    ELSE IF acc * 10 + to_digit(s[i]) > U8Max THEN Err("PosOverflow")
    ELSE ParseDigits(s, i + 1, acc * 10 + to_digit(s[i]))

\* s.parse::<u8>(): empty text and a lone sign are errors, one leading '+'
\* is skipped, a leading '-' is a digit error for an unsigned type.
ParseU8(s) ==
    IF Len(s) = 0 THEN Err("Empty")
    ELSE IF Len(s) = 1 /\ s[1] \in {"+", "-"} THEN Err("InvalidDigit")
    ELSE IF s[1] = "+" THEN ParseDigits(s, 2, 0)
    ELSE ParseDigits(s, 1, 0)

\* u8::to_string: decimal digits, no sign, no leading zero.
RECURSIVE U8ToString(_)
U8ToString(n) ==
    IF n < 10 THEN <<DigitChars[n + 1]>>
    ELSE U8ToString(n \div 10) \o <<DigitChars[(n % 10) + 1]>>

-----------------------------------------------------------------------------
(* Mask.                                                                   *)

\* Mask_from_str with the upper end of the range left out
Mask_from_str_below_32(s) ==
    LET r == ParseU8(s)
    IN  IF r.tag = "Err" THEN Err("Invalid subnet mask")
        ELSE IF r.val >= 1 /\ r.val < 32 THEN Ok(r.val)
        ELSE Err("Mask should be a number between 1 and 32")

\* impl FromStr for Mask
Mask_from_str(s) ==
    LET r == ParseU8(s)
    IN  IF r.tag = "Err" THEN Err("Invalid subnet mask")
        ELSE IF r.val >= 1 /\ r.val <= 32 THEN Ok(r.val)
        ELSE Err("Mask should be a number between 1 and 32")

\* impl ToString for Mask
Mask_to_string(mask) == U8ToString(mask)

\* A u32 is the function from its bit positions, 0 the least significant,
\* to its bits.
BitIdx == 0..(U32Bits - 1)

\* bit i of the octet o
Bit(o, i) == (o \div Pow2(i)) % 2

\* The u32 that try_from assembles from the octets, most significant first:
\* octets[0] << 24 | octets[1] << 16 | octets[2] << 8 | octets[3].
AddrBits(ip) == [i \in BitIdx |-> Bit(ip[4 - (i \div 8)], i % 8)]

\* u32::leading_ones: the one-bits counted down from bit 31
RECURSIVE LeadingOnesFrom(_, _)
LeadingOnesFrom(x, i) ==
    IF i < 0 THEN 0
    ELSE IF x[i] = 0 THEN 0
    ELSE 1 + LeadingOnesFrom(x, i - 1)

leading_ones(x) == LeadingOnesFrom(x, U32Bits - 1)

\* u32::trailing_zeros: the zero-bits counted up from bit 0; 32 for 0
RECURSIVE TrailingZerosFrom(_, _)
TrailingZerosFrom(x, i) ==
    IF i >= U32Bits THEN 0
    ELSE IF x[i] = 1 THEN 0
    ELSE 1 + TrailingZerosFrom(x, i + 1)

trailing_zeros(x) == TrailingZerosFrom(x, 0)

\* Mask_try_from with <= in place of ==, which every address passes
Mask_try_from_unvalidated(ip) ==
    LET addr == AddrBits(ip)
    IN  IF leading_ones(addr) + trailing_zeros(addr) <= 32
        THEN Ok(leading_ones(addr))
        ELSE Err("Not a valid mask")

\* impl TryFrom<Ipv4Addr> for Mask
Mask_try_from(ip) ==
    LET addr == AddrBits(ip)
    IN  IF leading_ones(addr) + trailing_zeros(addr) = 32
        THEN Ok(leading_ones(addr))
        ELSE Err("Not a valid mask")

\* ((addr >> sh) & 0xff) as u8
Octet(addr, sh) ==
    addr[sh] + 2 * addr[sh + 1] + 4 * addr[sh + 2] + 8 * addr[sh + 3]
    + 16 * addr[sh + 4] + 32 * addr[sh + 5] + 64 * addr[sh + 6]
    + 128 * addr[sh + 7]

\* Ipv4Addr::new(a, b, c, d) of the four shifted and masked bytes
Octets(addr) ==
    <<Octet(addr, 24), Octet(addr, 16), Octet(addr, 8), Octet(addr, 0)>>

\* 1u32 << n for a shift amount below the width
Shl1(n) == [i \in BitIdx |-> IF i = n THEN 1 ELSE 0]

\* impl From<Mask> for Ipv4Addr. `1 << mask.0` on a u32 overflows when the
\* shift amount is 32 or more: a build with overflow checks panics, a build
\* without them shifts by the amount modulo 32. Both outcomes are returned.
Ipv4Addr_from(mask) ==
    IF mask < U32Bits
    THEN {Value(Octets(Shl1(mask)))}
    ELSE {Panic, Value(Octets(Shl1(mask % U32Bits)))}

-----------------------------------------------------------------------------
(* std::net::Ipv4Addr as text.                                             *)

\* Parser::read_number(10, Some(3), false) from position pos: the digits
\* are accumulated in a checked u8, more than three digits fail, and so do
\* no digit at all and a leading zero followed by more digits.
RECURSIVE ReadDigits(_, _, _, _)
ReadDigits(s, pos, result, count) ==
    IF pos <= Len(s) /\ IsDigit(s[pos])
    THEN IF result * 10 > U8Max THEN [ok |-> FALSE, val |-> 0, pos |-> pos]
         ELSE IF result * 10 + to_digit(s[pos]) > U8Max
         THEN [ok |-> FALSE, val |-> 0, pos |-> pos]
         ELSE IF count + 1 > 3 THEN [ok |-> FALSE, val |-> 0, pos |-> pos]
         ELSE ReadDigits(s, pos + 1, result * 10 + to_digit(s[pos]), count + 1)
    ELSE [ok |-> count > 0, val |-> result, pos |-> pos, count |-> count]

read_number(s, pos) ==
    LET has_leading_zero == pos <= Len(s) /\ s[pos] = "0"
        r == ReadDigits(s, pos, 0, 0)
    IN  IF ~r.ok THEN [ok |-> FALSE, val |-> 0, pos |-> pos]
        ELSE IF has_leading_zero /\ r.count > 1
        THEN [ok |-> FALSE, val |-> 0, pos |-> pos]
        ELSE [ok |-> TRUE, val |-> r.val, pos |-> r.pos]

\* Parser::read_ipv4_addr: four numbers, a '.' before each but the first.
RECURSIVE ReadGroups(_, _, _, _)
ReadGroups(s, pos, index, groups) ==
    IF index = 4 THEN [ok |-> TRUE, val |-> groups, pos |-> pos]
    ELSE IF index > 0 /\ ~(pos <= Len(s) /\ s[pos] = ".")
    THEN [ok |-> FALSE, val |-> groups, pos |-> pos]
    ELSE LET n == read_number(s, IF index > 0 THEN pos + 1 ELSE pos)
         IN  IF ~n.ok THEN [ok |-> FALSE, val |-> groups, pos |-> pos]
             ELSE ReadGroups(s, n.pos, index + 1, Append(groups, n.val))

\* impl FromStr for Ipv4Addr: text longer than 15 bytes is refused, and the
\* parser must have consumed all of the text.
Ipv4Addr_from_str(s) ==
    IF Len(s) > 15 THEN Err("AddrParseError")
    ELSE LET r == ReadGroups(s, 1, 0, <<>>)
         IN  IF r.ok /\ r.pos = Len(s) + 1 THEN Ok(r.val)
             ELSE Err("AddrParseError")

\* impl Display for Ipv4Addr: the four octets in decimal, '.' between them
Ipv4Addr_to_string(ip) ==
    U8ToString(ip[1]) \o <<".">> \o U8ToString(ip[2]) \o <<".">>
    \o U8ToString(ip[3]) \o <<".">> \o U8ToString(ip[4])

-----------------------------------------------------------------------------
(* Subnet.                                                                 *)

Subnet(gateway, mask) == [gateway |-> gateway, mask |-> mask]

\* impl ToString for Subnet
Subnet_to_string(subnet) ==
    Ipv4Addr_to_string(subnet.gateway) \o <<"/">>
    \o U8ToString(subnet.mask)

\* str::split('/') collected: the pieces between the separators, empty
\* pieces kept, one piece more than there are separators.
RECURSIVE SplitFrom(_, _, _, _)
SplitFrom(s, i, cur, parts) ==
    IF i > Len(s) THEN Append(parts, cur)
    ELSE IF s[i] = "/" THEN SplitFrom(s, i + 1, <<>>, Append(parts, cur))
    ELSE SplitFrom(s, i + 1, Append(cur, s[i]), parts)

split(s) == SplitFrom(s, 1, <<>>, <<>>)

\* Subnet_from_str parsing the mask before the gateway
Subnet_from_str_mask_first(s) ==
    LET parts == split(s)
    IN  IF Len(parts) = 2
        THEN LET mask == Mask_from_str(parts[2])
             IN  IF mask.tag = "Ok"
                 THEN LET gateway == Ipv4Addr_from_str(parts[1])
                      IN  IF gateway.tag = "Ok"
                          THEN Ok(Subnet(gateway.val, mask.val))
                          ELSE Err("Invalid ip address format, expected XXX.XXX.XXX.XXX")
                 ELSE mask
        ELSE Err("Expected <gateway-ip-address>/<mask>")

\* impl FromStr for Subnet
Subnet_from_str(s) ==
    LET parts == split(s)
    IN  IF Len(parts) = 2
        THEN LET gateway == Ipv4Addr_from_str(parts[1])
             IN  IF gateway.tag = "Ok"
                 THEN LET mask == Mask_from_str(parts[2])
                      IN  IF mask.tag = "Ok"
                          THEN Ok(Subnet(gateway.val, mask.val))
                          ELSE mask
                 ELSE Err("Invalid ip address format, expected XXX.XXX.XXX.XXX")
        ELSE Err("Expected <gateway-ip-address>/<mask>")

-----------------------------------------------------------------------------
(* ClientSettings and ClientConfiguration.                                 *)

\* ClientSettings_default with the gateway's address as the client's
ClientSettings_default_gateway_ip ==
    [ ip |-> <<192, 168, 71, 1>>,
      subnet |-> Subnet(<<192, 168, 71, 1>>, 24),
      dns |-> Some(<<8, 8, 8, 8>>),
      secondary_dns |-> Some(<<8, 8, 4, 4>>) ]

\* impl Default for ClientSettings
ClientSettings_default ==
    [ ip |-> <<192, 168, 71, 200>>,
      subnet |-> Subnet(<<192, 168, 71, 1>>, 24),
      dns |-> Some(<<8, 8, 8, 8>>),
      secondary_dns |-> Some(<<8, 8, 4, 4>>) ]

\* impl Default for RouterConfiguration
RouterConfiguration_default ==
    [ subnet |-> Subnet(<<192, 168, 71, 1>>, 24),
      dhcp_enabled |-> TRUE,
      dns |-> Some(<<8, 8, 8, 8>>),
      secondary_dns |-> Some(<<8, 8, 4, 4>>) ]

\* The two variants of enum ClientConfiguration.
DHCP == [tag |-> "DHCP", val |-> "none"]

Fixed(client_settings) == [tag |-> "Fixed", val |-> client_settings]

\* impl Default for ClientConfiguration
ClientConfiguration_default == DHCP

\* as_fixed_settings_ref(&self): the returned Option
as_fixed_settings_ref(self) ==
    IF self.tag = "Fixed" THEN Some(self.val) ELSE None

\* as_fixed_settings_mut_self overwriting self whatever its variant
as_fixed_settings_mut_self_reset(self) == Fixed(ClientSettings_default)

\* as_fixed_settings_mut(&mut self): self as the call leaves it. A DHCP
\* value is overwritten with Fixed(Default::default()) before the recursive
\* call, which then takes the Fixed arm.
as_fixed_settings_mut_self(self) ==
    IF self.tag = "Fixed" THEN self ELSE Fixed(ClientSettings_default)

\* as_fixed_settings_mut(&mut self): the settings the returned reference
\* points at, which are those stored in self after the call.
as_fixed_settings_mut_ret(self) ==
    Value(as_fixed_settings_mut_self(self).val)

-----------------------------------------------------------------------------
(* The inputs explored.                                                    *)

\* characters of the texts handed to Mask::from_str
MaskChars == {"0", "1", "2", "3", "4", "5", "6", "+", "-", " ", "x"}

MaskTexts == UNION {[1..n -> MaskChars] : n \in 0..MaxMaskTextLen}

\* Mask is a tuple struct with a public u8 field: any u8 can be wrapped
MaskValues == 0..U8Max

\* octets of the addresses handed to Mask::try_from: every octet a prefix
\* mask can hold, and 1
OctetSample == {0, 1, 128, 192, 224, 240, 248, 252, 254, 255}

AddrSample == OctetSample \X OctetSample \X OctetSample \X OctetSample

\* octets of the gateways rendered: one, two and three digits
GatewayOctets == {0, 8, 71, 192, 255}

SubnetSample ==
    { Subnet(g, m) :
        g \in GatewayOctets \X GatewayOctets \X GatewayOctets \X GatewayOctets,
        m \in 1..32 }

\* the pieces the texts handed to Subnet::from_str are joined from
Pieces ==
    { <<"1", "9", "2", ".", "1", "6", "8", ".", "1", ".", "1">>,
      <<"2", "5", "5", ".", "2", "5", "5", ".", "2", "5", "5", ".", "2", "5", "5">>,
      <<"n", "o", "t", "-", "a", "n", "-", "i", "p">>,
      <<"2", "5", "6", ".", "1", ".", "1", ".", "1">>,
      <<"1", ".", "2", ".", "3">>,
      <<>>,
      <<"2", "4">>,
      <<"1">>,
      <<"3", "2">>,
      <<"0">>,
      <<"3", "3">>,
      <<"+", "8">>,
      <<"0", "1", ".", "2", ".", "3", ".", "4">>,
      <<"2", "5", "5", ".", "2", "5", "5", ".", "2", "5", "5", ".", "2", "5", "5", "5">> }

RECURSIVE Join(_, _)
Join(ps, i) ==
    IF i = Len(ps) THEN ps[i] ELSE ps[i] \o <<"/">> \o Join(ps, i + 1)

SubnetTexts ==
    { Join(ps, 1) : ps \in UNION {[1..n -> Pieces] : n \in 1..MaxParts} }

SettingsSample ==
    [ ip : {<<192, 168, 71, 200>>, <<10, 0, 0, 2>>},
      subnet : {Subnet(<<192, 168, 71, 1>>, 24), Subnet(<<10, 0, 0, 1>>, 8)},
      dns : {None, Some(<<8, 8, 8, 8>>)},
      secondary_dns : {None, Some(<<8, 8, 4, 4>>)} ]

\* ClientConfiguration is a public enum: a caller holds DHCP or any Fixed
ConfigSample == {DHCP} \cup {Fixed(s) : s \in SettingsSample}

-----------------------------------------------------------------------------
(* The state machine: one call of a function of the module on a chosen     *)
(* input, or any sequence of accessor calls on one ClientConfiguration.    *)

Init ==
    /\ pc = "call"
    /\ ret = NoValue
    /\ \/ fn = "Mask::from_str" /\ arg \in MaskTexts /\ config = DHCP
       \/ fn = "Mask::to_string" /\ arg \in MaskValues /\ config = DHCP
       \/ fn = "Mask::try_from" /\ arg \in AddrSample /\ config = DHCP
       \/ fn = "Ipv4Addr::from" /\ arg \in MaskValues /\ config = DHCP
       \/ fn = "Subnet::to_string" /\ arg \in SubnetSample /\ config = DHCP
       \/ fn = "Subnet::from_str" /\ arg \in SubnetTexts /\ config = DHCP
       \/ /\ fn \in {"ClientSettings::default", "RouterConfiguration::default",
                     "ClientConfiguration::default"}
          /\ arg = NoValue
          /\ config = DHCP
       \/ fn = "ClientConfiguration" /\ arg = NoValue /\ config \in ConfigSample

MaskFromStr ==
    /\ pc = "call"
    /\ fn = "Mask::from_str"
    /\ ret' = Mask_from_str(arg)
    /\ pc' = "done"
    /\ UNCHANGED <<fn, arg, config>>

MaskToString ==
    /\ pc = "call"
    /\ fn = "Mask::to_string"
    /\ ret' = Value(Mask_to_string(arg))
    /\ pc' = "done"
    /\ UNCHANGED <<fn, arg, config>>

MaskTryFrom ==
    /\ pc = "call"
    /\ fn = "Mask::try_from"
    /\ ret' = Mask_try_from(arg)
    /\ pc' = "done"
    /\ UNCHANGED <<fn, arg, config>>

Ipv4AddrFrom ==
    /\ pc = "call"
    /\ fn = "Ipv4Addr::from"
    /\ ret' \in Ipv4Addr_from(arg)
    /\ pc' = "done"
    /\ UNCHANGED <<fn, arg, config>>

SubnetToString ==
    /\ pc = "call"
    /\ fn = "Subnet::to_string"
    /\ ret' = Value(Subnet_to_string(arg))
    /\ pc' = "done"
    /\ UNCHANGED <<fn, arg, config>>

SubnetFromStr ==
    /\ pc = "call"
    /\ fn = "Subnet::from_str"
    /\ ret' = Subnet_from_str(arg)
    /\ pc' = "done"
    /\ UNCHANGED <<fn, arg, config>>

ClientSettingsDefault ==
    /\ pc = "call"
    /\ fn = "ClientSettings::default"
    /\ ret' = Value(ClientSettings_default)
    /\ pc' = "done"
    /\ UNCHANGED <<fn, arg, config>>

RouterConfigurationDefault ==
    /\ pc = "call"
    /\ fn = "RouterConfiguration::default"
    /\ ret' = Value(RouterConfiguration_default)
    /\ pc' = "done"
    /\ UNCHANGED <<fn, arg, config>>

ClientConfigurationDefault ==
    /\ pc = "call"
    /\ fn = "ClientConfiguration::default"
    /\ ret' = Value(ClientConfiguration_default)
    /\ pc' = "done"
    /\ UNCHANGED <<fn, arg, config>>

AccessorFns ==
    {"ClientConfiguration", "as_fixed_settings_ref", "as_fixed_settings_mut"}

\* a call of as_fixed_settings_ref on the configuration held
AsFixedSettingsRef ==
    /\ fn \in AccessorFns
    /\ fn' = "as_fixed_settings_ref"
    /\ arg' = config
    /\ ret' = as_fixed_settings_ref(config)
    /\ config' = config
    /\ pc' = "done"

\* a call of as_fixed_settings_mut on the configuration held
AsFixedSettingsMut ==
    /\ fn \in AccessorFns
    /\ fn' = "as_fixed_settings_mut"
    /\ arg' = config
    /\ ret' = as_fixed_settings_mut_ret(config)
    /\ config' = as_fixed_settings_mut_self(config)
    /\ pc' = "done"

Next ==
    \/ MaskFromStr
    \/ MaskToString
    \/ MaskTryFrom
    \/ Ipv4AddrFrom
    \/ SubnetToString
    \/ SubnetFromStr
    \/ ClientSettingsDefault
    \/ RouterConfigurationDefault
    \/ ClientConfigurationDefault
    \/ AsFixedSettingsRef
    \/ AsFixedSettingsMut

Spec == Init /\ [][Next]_vars

-----------------------------------------------------------------------------
(* Vocabulary of the properties, stated without the operators above.       *)

\* the error kinds of the specification, as the messages the code returns
InvalidFormat == "Invalid subnet mask"

OutOfRange == "Mask should be a number between 1 and 32"

NotAValidMask == "Not a valid mask"

InvalidAddressFormat == "Invalid ip address format, expected XXX.XXX.XXX.XXX"

InvalidSubnetFormat == "Expected <gateway-ip-address>/<mask>"

\* the value of the decimal digit c
DigitValue(c) ==
    CASE c = "0" -> 0 [] c = "1" -> 1 [] c = "2" -> 2 [] c = "3" -> 3
      [] c = "4" -> 4 [] c = "5" -> 5 [] c = "6" -> 6 [] c = "7" -> 7
      [] c = "8" -> 8 [] c = "9" -> 9

\* text made of decimal digits only, and of at least one
AllDigits(s) ==
    /\ Len(s) >= 1
    /\ \A i \in 1..Len(s) :
         s[i] \in {"0", "1", "2", "3", "4", "5", "6", "7", "8", "9"}

\* the number a text of decimal digits denotes
RECURSIVE DecimalValue(_)
DecimalValue(s) ==
    IF Len(s) = 0 THEN 0
    ELSE 10 * DecimalValue(SubSeq(s, 1, Len(s) - 1)) + DigitValue(s[Len(s)])

\* the octet whose high `ones` bits are set, for ones in 0..8
HighBits(ones) == 256 - Pow2(8 - ones)

Clamp8(n) == IF n < 0 THEN 0 ELSE IF n > 8 THEN 8 ELSE n

\* the address whose 32-bit value is n one-bits followed by zero-bits only
PrefixAddr(n) ==
    << HighBits(Clamp8(n)), HighBits(Clamp8(n - 8)),
       HighBits(Clamp8(n - 16)), HighBits(Clamp8(n - 24)) >>

\* the positions of the character c in the text s
Positions(s, c) == {i \in 1..Len(s) : s[i] = c}

\* one octet of a dotted quad: one to three digits, no zero in front of
\* other digits, at most 255
DecimalOctet(s) ==
    /\ AllDigits(s)
    /\ Len(s) <= 3
    /\ (Len(s) > 1 => s[1] /= "0")
    /\ DecimalValue(s) <= U8Max

\* the four fields of a text with exactly three dots
QuadFields(s) ==
    LET d == Positions(s, ".")
        i == CHOOSE x \in d : \A y \in d : x <= y
        k == CHOOSE x \in d : \A y \in d : x >= y
        j == CHOOSE x \in d : x /= i /\ x /= k
    IN  << SubSeq(s, 1, i - 1), SubSeq(s, i + 1, j - 1),
           SubSeq(s, j + 1, k - 1), SubSeq(s, k + 1, Len(s)) >>

IsDottedQuad(s) ==
    /\ Cardinality(Positions(s, ".")) = 3
    /\ \A n \in 1..4 : DecimalOctet(QuadFields(s)[n])

QuadValue(s) == [n \in 1..4 |-> DecimalValue(QuadFields(s)[n])]

Done(f) == pc = "done" /\ fn = f

-----------------------------------------------------------------------------
(* The properties.                                                         *)

\* C1: every Mask a constructing operation returns (Mask::from_str,
\* Mask::try_from, the mask of a parsed Subnet, the masks inside the
\* Default values) is within 1..32.
C1_MaskWithinRange ==
    /\ (Done("Mask::from_str") /\ ret.tag = "Ok") => ret.val \in 1..32
    /\ (Done("Mask::try_from") /\ ret.tag = "Ok") => ret.val \in 1..32
    /\ (Done("Subnet::from_str") /\ ret.tag = "Ok") => ret.val.mask \in 1..32
    /\ Done("ClientSettings::default") => ret.val.subnet.mask \in 1..32
    /\ Done("RouterConfiguration::default") => ret.val.subnet.mask \in 1..32

\* C2: for every mask N in 1..32 the conversion to an address returns the
\* address with exactly N leading one-bits followed by zero-bits only.
C2_ToDottedQuadLeadingOnes ==
    (Done("Ipv4Addr::from") /\ arg \in 1..32) => ret = Value(PrefixAddr(arg))

\* C3: in every step the configuration changes only from DHCP to Fixed and
\* only in a call of as_fixed_settings_mut; as_fixed_settings_ref leaves it
\* as it is and returns None for DHCP and the stored settings for Fixed;
\* as_fixed_settings_mut on Fixed(s) leaves Fixed(s) and returns s; a Fixed
\* configuration stays Fixed.
C3_OnlyDhcpToFixedOnMut ==
    [][ /\ config' /= config =>
             /\ config.tag = "DHCP"
             /\ config'.tag = "Fixed"
             /\ fn' = "as_fixed_settings_mut"
        /\ fn' = "as_fixed_settings_ref" =>
             /\ config' = config
             /\ ret' = IF config.tag = "DHCP" THEN None ELSE Some(config.val)
        /\ (fn' = "as_fixed_settings_mut" /\ config.tag = "Fixed") =>
             /\ config' = config
             /\ ret' = Value(config.val)
        /\ config.tag = "Fixed" => config'.tag = "Fixed"
      ]_vars

\* C3 witness: as_fixed_settings_mut was called on a Fixed configuration
\* whose settings are not the defaults, and kept and returned them.
C3_Witness ==
    /\ Done("as_fixed_settings_mut")
    /\ arg.tag = "Fixed"
    /\ arg.val.ip = <<10, 0, 0, 2>>
    /\ config = arg
    /\ ret = Value(arg.val)

\* C4: as_fixed_settings_mut can always be called on a DHCP configuration,
\* returns the default settings (ip 192.168.71.200, subnet 192.168.71.1/24,
\* dns 8.8.8.8, secondary dns 8.8.4.4) and leaves the configuration
\* Fixed with those settings.
C4_MutOnDhcpGivesDefaults ==
    LET defaults ==
            [ ip |-> <<192, 168, 71, 200>>,
              subnet |-> [gateway |-> <<192, 168, 71, 1>>, mask |-> 24],
              dns |-> [tag |-> "Some", val |-> <<8, 8, 8, 8>>],
              secondary_dns |-> [tag |-> "Some", val |-> <<8, 8, 4, 4>>] ]
    IN  /\ (fn \in AccessorFns /\ config.tag = "DHCP") =>
              ENABLED AsFixedSettingsMut
        /\ (Done("as_fixed_settings_mut") /\ arg.tag = "DHCP") =>
              /\ ret = [tag |-> "Value", val |-> defaults]
              /\ config = [tag |-> "Fixed", val |-> defaults]

\* C4 witness: as_fixed_settings_mut was called on DHCP, which is what
\* ClientConfiguration::default() gives, and the configuration is Fixed.
C4_Witness ==
    /\ Done("as_fixed_settings_mut")
    /\ arg = ClientConfiguration_default
    /\ config.tag = "Fixed"
    /\ ret.val.ip = <<192, 168, 71, 200>>

\* the outcome C5 gives a text
C5_Outcome(s) ==
    LET slashes == Positions(s, "/")
        i == CHOOSE x \in slashes : TRUE
        before == SubSeq(s, 1, i - 1)
        after == SubSeq(s, i + 1, Len(s))
    IN  IF Cardinality(slashes) /= 1 THEN Err(InvalidSubnetFormat)
        ELSE IF ~IsDottedQuad(before) THEN Err(InvalidAddressFormat)
        ELSE IF Mask_from_str(after).tag = "Err" THEN Mask_from_str(after)
        ELSE Ok([gateway |-> QuadValue(before),
                 mask |-> Mask_from_str(after).val])

\* C5: Subnet::from_str decides in this order: not exactly one '/' is
\* InvalidSubnetFormat; else a part before the '/' that is no dotted quad is
\* InvalidAddressFormat; else a part after the '/' that Mask::from_str
\* rejects is that error; else the Subnet of the two parts.
C5_SubnetParseOrder ==
    Done("Subnet::from_str") => ret = C5_Outcome(arg)

\* C5 witness: a text with one '/', no dotted quad before it and a mask out
\* of range after it was parsed and the address error was returned.
C5_Witness ==
    /\ Done("Subnet::from_str")
    /\ arg = <<"n", "o", "t", "-", "a", "n", "-", "i", "p", "/", "3", "3">>
    /\ ret = Err(InvalidAddressFormat)

\* C6: Mask::from_str gives InvalidFormat to a text that is no unsigned
\* decimal integer, OutOfRange to a decimal integer outside 1..32 whatever
\* its magnitude, and the Mask to a decimal integer within 1..32. Texts
\* that start with a '+' are left to C9 and not judged here.
C6_MaskParseClasses ==
    (Done("Mask::from_str") /\ ~(Len(arg) >= 1 /\ arg[1] = "+")) =>
        ret = IF ~AllDigits(arg) THEN Err(InvalidFormat)
              ELSE IF DecimalValue(arg) \notin 1..32 THEN Err(OutOfRange)
              ELSE Ok(DecimalValue(arg))

\* C7: Mask::try_from succeeds exactly on the addresses that are N one-bits
\* followed by zero-bits only, with Mask(N), and fails with NotAValidMask
\* on every other address.
C7_FromDottedQuad ==
    Done("Mask::try_from") =>
        ret = IF \E n \in 0..32 : arg = PrefixAddr(n)
              THEN Ok(CHOOSE n \in 0..32 : arg = PrefixAddr(n))
              ELSE Err(NotAValidMask)

\* C7 witness: 255.255.255.0 was converted and gave Mask(24).
C7_Witness ==
    /\ Done("Mask::try_from")
    /\ arg = <<255, 255, 255, 0>>
    /\ ret = Ok(24)

\* C8: parsing the rendered text of a Subnet with a mask in 1..32 gives the
\* Subnet back, and parsing the rendered text of a Mask in 1..32 gives the
\* Mask back.
C8_RenderParseRoundTrip ==
    /\ Done("Subnet::to_string") => Subnet_from_str(ret.val) = Ok(arg)
    /\ (Done("Mask::to_string") /\ arg \in 1..32) =>
           Mask_from_str(ret.val) = Ok(arg)

\* C8 witness: the Subnet 192.8.0.255/32 was rendered as "192.8.0.255/32".
C8_Witness ==
    /\ Done("Subnet::to_string")
    /\ arg = [gateway |-> <<192, 8, 0, 255>>, mask |-> 32]
    /\ ret.val = <<"1", "9", "2", ".", "8", ".", "0", ".", "2", "5", "5", "/", "3", "2">>

\* C9: Mask::from_str returns a Mask only for a text of decimal digits, so
\* not for one with a leading '+', white space or any other character.
C9_MaskParseDigitsOnly ==
    (Done("Mask::from_str") /\ ret.tag = "Ok") => AllDigits(arg)

\* C10: for every mask N in 1..32 the shift amount of `1 << N` is below
\* the 32 bits of a u32 and the conversion returns an address.
C10_ShiftWithinWidth ==
    (Done("Ipv4Addr::from") /\ arg \in 1..32) =>
        (arg < U32Bits /\ ret.tag = "Value")

=============================================================================
